---------------------------- MODULE Spec2Model ----------------------------
(***************************************************************************)
(* Arithmetic Brownian Motion path simulator (src/src/abm.rs).             *)
(*                                                                         *)
(* f64 values are modelled as finite-precision numbers: a finite value is  *)
(* an integer count of 1/Scale units, and the two non-finite classes the   *)
(* code can produce (a division by a zero step count, the square root of a *)
(* negative time step) are kept as "inf" and "nan".  Addition of finite    *)
(* values is exact; multiplication, division and square root round to the  *)
(* nearest representable value, as the IEEE operations do.                 *)
(***************************************************************************)
EXTENDS Integers, Sequences, FiniteSets

\* ------------------------------------------------------------- bounds
Scale    == 16   \* units per 1.0 of an f64 value
MaxPaths == 2    \* n_paths is drawn from 0..MaxPaths
MaxSteps == 3    \* n_steps is drawn from 0..MaxSteps
MaxCells == 4    \* n_paths * n_steps <= MaxCells

\* ------------------------------------------------------------- f64
Fin(n) == [cls |-> "fin", v |-> n]
NaN    == [cls |-> "nan", v |-> 0]
Inf(s) == [cls |-> "inf", v |-> s]

Sign(n) == IF n > 0 THEN 1 ELSE IF n < 0 THEN -1 ELSE 0

\* n / d for d > 0, rounded to nearest, ties to even
RoundDiv(n, d) ==
    LET q == n \div d
        r == n % d
    IN  IF 2 * r < d THEN q
        ELSE IF 2 * r > d THEN q + 1
        ELSE IF q % 2 = 0 THEN q ELSE q + 1

\* the integer nearest to the square root of n >= 0
RoundSqrt(n) ==
    LET r == CHOOSE x \in 0..n : x * x <= n /\ (x + 1) * (x + 1) > n
    IN  IF n - r * r > r THEN r + 1 ELSE r

FAdd(a, b) ==
    IF a.cls = "nan" \/ b.cls = "nan" THEN NaN
    ELSE IF a.cls = "inf" /\ b.cls = "inf"
         THEN IF a.v = b.v THEN a ELSE NaN
    ELSE IF a.cls = "inf" THEN a
    ELSE IF b.cls = "inf" THEN b
    ELSE Fin(a.v + b.v)

FMul(a, b) ==
    IF a.cls = "nan" \/ b.cls = "nan" THEN NaN
    ELSE IF a.cls = "inf" \/ b.cls = "inf"
         THEN IF a.v = 0 \/ b.v = 0 THEN NaN
              ELSE Inf(Sign(a.v) * Sign(b.v))
    ELSE Fin(RoundDiv(a.v * b.v, Scale))

FDiv(a, b) ==
    IF a.cls = "nan" \/ b.cls = "nan" THEN NaN
    ELSE IF a.cls = "inf"
         THEN IF b.cls = "inf" THEN NaN
              ELSE Inf(a.v * (IF b.v < 0 THEN -1 ELSE 1))
    ELSE IF b.cls = "inf" THEN Fin(0)
    ELSE IF b.v = 0
         THEN IF a.v = 0 THEN NaN ELSE Inf(Sign(a.v))
    ELSE IF b.v > 0 THEN Fin(RoundDiv(a.v * Scale, b.v))
    ELSE Fin(RoundDiv((0 - a.v) * Scale, 0 - b.v))

FSqrt(a) ==
    IF a.cls = "nan" THEN NaN
    ELSE IF a.cls = "inf" THEN (IF a.v > 0 THEN a ELSE NaN)
    ELSE IF a.v < 0 THEN NaN
    ELSE Fin(RoundSqrt(a.v * Scale))

\* `n as f64`
UsizeAsF64(n) == Fin(n * Scale)

\* ------------------------------------------------------------- inputs
Mus      == {Fin(0), Fin(Scale)}
Sigmas   == {Fin(0 - Scale), Fin(0), Fin(2 * Scale)}
Horizons == {Fin(0 - Scale), Fin(0), Fin(2 * Scale)}
Initials == {Fin(100 * Scale)}

\* rng.gen::<f64>(): a value of the half-open interval [0, 1)
NoiseSupport == {0, Scale \div 3, (2 * Scale) \div 3}

VARIABLES
    pc,        \* "init" | "ready" | "loop" | "done"
    mu, sigma, n_paths, n_steps, t_end, s_0,   \* fields of the struct
    dt,        \* local of simulate()
    paths,     \* local of simulate(), its return value once pc = "done"
    i, j,      \* the loop counters of simulate()
    stream,    \* the values the generator has handed out in this call, in order
    src,       \* src[i][j]: position in stream of the draw made for paths[i][j]
    prev       \* draws and result of the previous completed call of simulate()

fields == <<mu, sigma, n_paths, n_steps, t_end, s_0>>
vars == <<pc, mu, sigma, n_paths, n_steps, t_end, s_0, dt, paths, i, j,
          stream, src, prev>>

NoPrev == [valid |-> FALSE, draws |-> <<>>, paths |-> <<>>]

Init ==
    /\ pc = "init"
    /\ mu = Fin(0) /\ sigma = Fin(0) /\ t_end = Fin(0) /\ s_0 = Fin(0)
    /\ n_paths = 0 /\ n_steps = 0
    /\ dt = Fin(0)
    /\ paths = <<>>
    /\ i = 0 /\ j = 0
    /\ stream = <<>>
    /\ src = <<>>
    /\ prev = NoPrev

\* ArithmeticBrownianMotion::new
New ==
    /\ pc = "init"
    /\ \E m \in Mus, sg \in Sigmas, np \in 0..MaxPaths, ns \in 0..MaxSteps,
          te \in Horizons, s0 \in Initials :
          /\ np * ns <= MaxCells
          /\ mu' = m /\ sigma' = sg /\ n_paths' = np /\ n_steps' = ns
          /\ t_end' = te /\ s_0' = s0
    /\ pc' = "ready"
    /\ UNCHANGED <<dt, paths, i, j, stream, src, prev>>

\* variant: each path allocated with n_steps entries instead of n_steps + 1
AllocPathsShort(s0, ns, np) ==
    [ii \in 0..(np - 1) |-> [jj \in 0..(ns - 1) |-> s0]]

\* variant: a later call starts each path from the last value the earlier
\* call left in it instead of s_0
AllocPathsStale(s0, ns, np) ==
    [ii \in 0..(np - 1) |->
        [jj \in 0..ns |-> IF pc = "done" THEN paths[ii][ns] ELSE s0]]

\* vec![vec![s_0; n_steps + 1]; n_paths]
AllocPaths(s0, ns, np) ==
    [ii \in 0..(np - 1) |-> [jj \in 0..ns |-> s0]]

\* simulate(): dt, the generator, the allocation, entry of the outer loop
SimulateBegin ==
    /\ pc \in {"ready", "done"}
    /\ dt' = FDiv(t_end, UsizeAsF64(n_steps))
    /\ paths' = AllocPaths(s_0, n_steps, n_paths)
    /\ src' = [ii \in 0..(n_paths - 1) |-> [jj \in 0..n_steps |-> 0]]
    /\ stream' = <<>>
    /\ prev' = IF pc = "done"
               THEN [valid |-> TRUE, draws |-> stream, paths |-> paths]
               ELSE prev
    /\ i' = 0 /\ j' = 1
    /\ pc' = "loop"
    /\ UNCHANGED fields

\* for i in 0..n_paths
OuterLoopHasNext(ii, np) == ii < np

\* variant: the exclusive range 1..n_steps
InnerLoopExclusive(jj, ns) == jj < ns

\* for j in 1..=n_steps
InnerLoopHasNext(jj, ns) == jj <= ns

\* variant: the draw is centred on zero before it is scaled
WienerIncrementCentred(u, step) == FMul(Fin(u - Scale \div 2), FSqrt(step))

\* d_w = rng.gen::<f64>() * dt.sqrt()
WienerIncrement(u, step) == FMul(Fin(u), FSqrt(step))

\* variant: the drift term is not scaled by dt
EulerUpdateUnscaledDrift(p, ii, jj, d_w) ==
    [p EXCEPT ![ii][jj] =
        FAdd(FAdd(p[ii][jj - 1], mu), FMul(sigma, d_w))]

\* variant: the new value is written over the entry it was computed from
EulerUpdateInPlace(p, ii, jj, d_w) ==
    [p EXCEPT ![ii][jj - 1] =
        FAdd(FAdd(p[ii][jj - 1], FMul(mu, dt)), FMul(sigma, d_w))]

\* paths[i][j] = paths[i][j - 1] + mu * dt + sigma * d_w
EulerUpdate(p, ii, jj, d_w) ==
    [p EXCEPT ![ii][jj] =
        FAdd(FAdd(p[ii][jj - 1], FMul(mu, dt)), FMul(sigma, d_w))]

\* one iteration of the inner loop body
Step ==
    /\ pc = "loop"
    /\ OuterLoopHasNext(i, n_paths)
    /\ InnerLoopHasNext(j, n_steps)
    /\ \E u \in NoiseSupport :
          /\ stream' = Append(stream, u)
          /\ paths' = EulerUpdate(paths, i, j, WienerIncrement(u, dt))
    /\ src' = [src EXCEPT ![i][j] = Len(stream) + 1]
    /\ j' = j + 1
    /\ UNCHANGED <<pc, mu, sigma, n_paths, n_steps, t_end, s_0, dt, i, prev>>

\* the inner loop is exhausted: next iteration of the outer loop
NextPath ==
    /\ pc = "loop"
    /\ OuterLoopHasNext(i, n_paths)
    /\ ~InnerLoopHasNext(j, n_steps)
    /\ i' = i + 1
    /\ j' = 1
    /\ UNCHANGED <<pc, mu, sigma, n_paths, n_steps, t_end, s_0, dt, paths,
                   stream, src, prev>>

\* the outer loop is exhausted: simulate() returns paths
Return ==
    /\ pc = "loop"
    /\ ~OuterLoopHasNext(i, n_paths)
    /\ pc' = "done"
    /\ UNCHANGED <<mu, sigma, n_paths, n_steps, t_end, s_0, dt, paths, i, j,
                   stream, src, prev>>

Next == New \/ SimulateBegin \/ Step \/ NextPath \/ Return

Spec == Init /\ [][Next]_vars

\* ------------------------------------------------------------- properties
Returned == pc = "done"
PathIds  == 0..(n_paths - 1)

\* the draws made for path ii of a call whose draws are st
DrawsOfPath(st, ii) == [jj \in 1..n_steps |-> st[ii * n_steps + jj]]

RECURSIVE SumOver(_, _, _, _)
\* the sum over u in S of the increment a step from paths[ii][jj] takes when the
\* generator yields u
SumOver(S, p, ii, jj) ==
    IF S = {} THEN 0
    ELSE LET u == CHOOSE x \in S : TRUE
         IN  (EulerUpdate(p, ii, jj + 1, WienerIncrement(u, dt))[ii][jj + 1].v
                - p[ii][jj].v)
             + SumOver(S \ {u}, p, ii, jj)

\* C1: with path_count >= 1, step_count >= 1 and horizon > 0, whatever the
\* draws, simulate() returns exactly path_count sequences, each of length
\* exactly step_count + 1.
C1_ResultShape ==
    (Returned /\ n_paths >= 1 /\ n_steps >= 1 /\ t_end.v > 0) =>
        /\ DOMAIN paths = 0..(n_paths - 1)
        /\ Cardinality(DOMAIN paths) = n_paths
        /\ \A ii \in DOMAIN paths :
              /\ DOMAIN paths[ii] = 0..n_steps
              /\ Cardinality(DOMAIN paths[ii]) = n_steps + 1

C1_Witness ==
    /\ Returned /\ n_paths = 2 /\ n_steps = 2 /\ t_end.v > 0
    /\ Len(stream) = 4

\* C2: construction with step_count = 0, path_count = 0 or horizon <= 0 fails:
\* no simulator instance exists for such a configuration.
C2_InvalidConfigRejected ==
    pc # "init" => (n_steps >= 1 /\ n_paths >= 1 /\ t_end.v > 0)

\* C3: no call of simulate() completes normally with a result while
\* step_count = 0.
C3_ZeroStepsNeverReturns == ~(Returned /\ n_steps = 0)

\* C4: in the returned collection every path p and index 0 <= j < step_count
\* satisfy p[j+1] = p[j] + drift * dt + volatility * dW_j, with dt = horizon /
\* step_count and dW_j the scaled draw made for that (path, step).
C4_EulerRelation ==
    Returned =>
        /\ dt = FDiv(t_end, UsizeAsF64(n_steps))
        /\ \A ii \in PathIds : \A jj \in 0..(n_steps - 1) :
              /\ src[ii][jj + 1] \in 1..Len(stream)
              /\ paths[ii][jj + 1] =
                    FAdd(FAdd(paths[ii][jj], FMul(mu, dt)),
                         FMul(sigma,
                              FMul(Fin(stream[src[ii][jj + 1]]), FSqrt(dt))))

C4_Witness ==
    /\ Returned /\ n_paths = 2 /\ n_steps = 2 /\ t_end.v > 0
    /\ mu.v # 0 /\ sigma.v # 0
    /\ stream[1] # 0 /\ stream[2] # stream[1] /\ stream[3] # stream[1]
    /\ paths[0][2] # paths[0][1] /\ paths[0][2] # paths[1][2]

\* C5: for every returned sequence p, p[0] equals initial_value, for every
\* configuration and every sequence of draws.
C5_FirstIsInitial ==
    Returned => \A ii \in PathIds : paths[ii][0] = s_0

C5_Witness ==
    /\ Returned /\ n_paths = 2 /\ n_steps >= 2
    /\ paths[0][1] # s_0 /\ paths[1][2] # s_0
    /\ paths[0][0] = s_0

\* C6: when volatility = 0 the returned path is deterministic whatever the
\* draws: p[j] = initial_value + drift * j * dt for every path and every j in
\* 0..step_count (stated where dt = horizon / step_count is defined).
C6_ZeroVolatilityDeterministic ==
    (Returned /\ sigma = Fin(0) /\ n_steps >= 1) =>
        \A ii \in PathIds : \A jj \in 0..n_steps :
            paths[ii][jj] = FAdd(s_0, FMul(FMul(mu, UsizeAsF64(jj)), dt))

\* C6 on the configurations whose horizon is not negative: there the zero
\* volatility path is the pure drift line.
C6_OnNonNegativeHorizon ==
    (Returned /\ sigma = Fin(0) /\ n_steps >= 1 /\ t_end.v >= 0) =>
        \A ii \in PathIds : \A jj \in 0..n_steps :
            paths[ii][jj] = FAdd(s_0, FMul(FMul(mu, UsizeAsF64(jj)), dt))

\* C7: the increment of a step is Z * sqrt(dt) with Z zero-mean, taking
\* negative as well as positive values, so that the expected value of
\* p[j+1] - p[j] (the mean over the equiprobable values of the generator) is
\* drift * dt.
C7_ZeroMeanIncrement ==
    (Returned /\ n_paths >= 1 /\ n_steps >= 1 /\ t_end.v > 0) =>
        /\ \E u \in NoiseSupport : WienerIncrement(u, dt).v < 0
        /\ \A ii \in PathIds : \A jj \in 0..(n_steps - 1) :
              SumOver(NoiseSupport, paths, ii, jj)
                 = Cardinality(NoiseSupport) * FMul(mu, dt).v

\* C8: two calls of simulate() on the same simulator that receive the same
\* sequence of draws return identical collections; nothing of the earlier call
\* influences the later one.
C8_Deterministic ==
    (Returned /\ prev.valid /\ stream = prev.draws) => paths = prev.paths

C8_Witness ==
    /\ Returned /\ prev.valid /\ stream = prev.draws
    /\ n_paths = 2 /\ n_steps = 2 /\ t_end.v > 0 /\ sigma.v # 0 /\ mu.v # 0
    /\ stream[1] # 0 /\ stream[4] # stream[1]
    /\ paths[1][2] # s_0

\* C9: one call consumes exactly path_count * step_count draws, one fresh draw
\* per (path i, step j) in path-major order, none used for two entries; the
\* values of path i depend only on that path's own step_count draws.
C9_DrawPartition ==
    Returned =>
        /\ Len(stream) = n_paths * n_steps
        /\ \A ii \in PathIds : \A jj \in 1..n_steps :
              src[ii][jj] = ii * n_steps + jj
        /\ prev.valid =>
              \A ii \in PathIds :
                  DrawsOfPath(stream, ii) = DrawsOfPath(prev.draws, ii)
                      => paths[ii] = prev.paths[ii]

C9_Witness ==
    /\ Returned /\ prev.valid
    /\ n_paths = 2 /\ n_steps = 2 /\ t_end.v > 0 /\ sigma.v # 0
    /\ DrawsOfPath(stream, 0) = DrawsOfPath(prev.draws, 0)
    /\ DrawsOfPath(stream, 1) # DrawsOfPath(prev.draws, 1)
    /\ paths[1] # prev.paths[1]
    /\ stream[1] # stream[2]

=============================================================================
